---- MODULE Spec2Model ----
(***************************************************************************)
(* worker_proxy: a Hono worker that fronts an R2 bucket.  The model covers *)
(* the D1-backed rate-limit store (class D1RateLimitStore), the admission  *)
(* ("bot protection") middleware, the rate-limit middleware, the route     *)
(* handlers and their bucket calls, and the scheduled sweeps of the        *)
(* counter table and of the bucket.                                        *)
(*                                                                         *)
(* Every `await` on a D1 statement is a scheduling point: a store method   *)
(* is split into one action per statement, so that calls of different      *)
(* requests interleave between the SELECT and the UPDATE.                  *)
(***************************************************************************)
EXTENDS Integers, Sequences, FiniteSets, TLC

VARIABLES
    now,      \* Math.floor(Date.now() / 1000): wall clock, in seconds
    ticks,    \* how many times the clock has advanced (bounded)
    calls,    \* how many store calls / requests have been issued (bounded)
    store,    \* table image_rate_limit: key -> row
    pc,       \* per caller: the statement it is suspended at
    key,      \* per caller: the `key` argument of the running store method
    t,        \* per caller: the local `now` of the running increment
    row,      \* per caller: the row its SELECT returned
    last,     \* the call that returned last: method, key, row read (resetKey: row
              \* removed), result
    hist,     \* per key: bookkeeping of the current batch of increments (history)
    build,    \* which of the repository's versions of the worker is deployed
    client,   \* the user-agent of the client whose requests are followed
    req,      \* the request received last
    verdict,  \* what the bot-protection part of the middleware made of it
    resp,     \* how the middleware answered it ("pending" while it runs)
    via,      \* per caller: who called the running store method
    win,      \* per key: the window of requests that passed admission (history)
    route,    \* the route handler's work on the request: method, statement it is
              \* suspended at, object key, response, bucket calls made
    bucket,   \* the R2 bucket: object key -> object
    meta,     \* table image_metadata: object key -> row
    job       \* the scheduled trigger: its sweep's position, locals and summary

storeVars == <<now, ticks, calls, store, pc, key, t, row, last, hist>>

reqVars == <<build, client, req, verdict, resp, via, win>>

ioVars == <<route, bucket, meta, job>>

vars == <<now, ticks, calls, store, pc, key, t, row, last, hist,
          build, client, req, verdict, resp, via, win,
          route, bucket, meta, job>>

(***************************************************************************)
(* Bounds of the model.                                                    *)
(***************************************************************************)
MaxTicks == 2
MaxCalls == 3
MaxReqs == 102

(***************************************************************************)
(* Program constants.                                                      *)
(***************************************************************************)
TtlSeconds == 65
Limit == 100
SweepGrace == 1800

\* The burst tier of the specification (section 4.4): about 10 hits in a
\* window of 5 to 60 seconds.
BurstLimit == 10
BurstWindow == 5

\* The clock advances by one second, by a whole window, or past the sweep's grace.
TickSteps == {1, TtlSeconds, SweepGrace + 1}

Procs == {"p1", "p2"}

(***************************************************************************)
(* Strings are sequences of characters, so that startsWith, includes,      *)
(* toLowerCase and the template literal are computed, not assumed.         *)
(***************************************************************************)
UploadsPrefix == <<"/", "u", "p", "l", "o", "a", "d", "s", "/">>
PathHealth == <<"/", "h", "e", "a", "l", "t", "h">>
PathRoot == <<"/">>
PathObject == <<"/", "a", ".", "p", "n", "g">>
PathUpload == <<"/", "u", "p", "l", "o", "a", "d", "s", "/", "a", ".", "p", "n", "g">>
PathUploadsDir == <<"/", "u", "p", "l", "o", "a", "d", "s", "/">>
PathDebug == <<"/", "d", "e", "b", "u", "g", "/", "l", "i", "s", "t">>
UnknownIp == <<"u", "n", "k", "n", "o", "w", "n", "-", "i", "p">>
Ip1 == <<"1", "0", ".", "0", ".", "0", ".", "1">>
UaBrowser == <<"M", "o", "z", "i", "l", "l", "a", "/", "5">>
UaCurl == <<"c", "u", "r", "l", "/", "8">>
UaBot == <<"A", "d", "s", "B", "o", "t">>
UaImgproxy == <<"i", "m", "g", "p", "r", "o", "x", "y", "/", "3">>
ImgproxyPrefix == <<"i", "m", "g", "p", "r", "o", "x", "y", "/">>
AcceptImage == <<"i", "m", "a", "g", "e", "/", "*">>
AcceptImageUpper == <<"I", "M", "A", "G", "E", "/", "p", "n", "g">>
AcceptHtml == <<"t", "e", "x", "t", "/", "h", "t", "m", "l">>
AcceptAny == <<"*", "/", "*">>
Image == <<"i", "m", "a", "g", "e">>

\* The alternatives of /python|curl|bot|spider|crawler|scraper/i
BotWords ==
    {<<"p", "y", "t", "h", "o", "n">>,
     <<"c", "u", "r", "l">>,
     <<"b", "o", "t">>,
     <<"s", "p", "i", "d", "e", "r">>,
     <<"c", "r", "a", "w", "l", "e", "r">>,
     <<"s", "c", "r", "a", "p", "e", "r">>}

Upper == <<"A", "B", "C", "D", "E", "F", "G", "H", "I", "J", "K", "L", "M",
           "N", "O", "P", "Q", "R", "S", "T", "U", "V", "W", "X", "Y", "Z">>

Lower == <<"a", "b", "c", "d", "e", "f", "g", "h", "i", "j", "k", "l", "m",
           "n", "o", "p", "q", "r", "s", "t", "u", "v", "w", "x", "y", "z">>

ToLowerChar(c) ==
    IF \E i \in 1..26 : Upper[i] = c
    THEN Lower[CHOOSE i \in 1..26 : Upper[i] = c]
    ELSE c

\* String.prototype.toLowerCase
ToLowerCase(str) == [i \in 1..Len(str) |-> ToLowerChar(str[i])]

\* String.prototype.includes
Includes(str, sub) ==
    \E i \in 0..(Len(str) - Len(sub)) : SubSeq(str, i + 1, i + Len(sub)) = sub

\* String.prototype.startsWith
StartsWith(str, pre) ==
    Len(str) >= Len(pre) /\ SubSeq(str, 1, Len(pre)) = pre

\* A request header: c.req.header(name) is undefined when the header is missing.
Missing == [has |-> FALSE, val |-> <<>>]

Hdr(v) == [has |-> TRUE, val |-> v]

\* header ?? fallback
OrElse(h, d) == IF h.has THEN h.val ELSE d

\* `${ip}::${ua}`
Fingerprint(ip, ua) == ip \o <<":", ":">> \o ua

FingerprintOf(r) == Fingerprint(OrElse(r.ip, UnknownIp), OrElse(r.ua, <<>>))

\* The keys of image_rate_limit the model follows: two clients' fingerprints.
Keys == {Fingerprint(Ip1, UaBrowser), Fingerprint(Ip1, UaImgproxy)}

NoKey == <<>>

(***************************************************************************)
(* Rows of image_rate_limit (key, count, expires_at).  first() returns     *)
(* null when no row matches: NoRow.                                        *)
(***************************************************************************)
NoRow == [present |-> FALSE, count |-> 0, expires_at |-> 0]

Row(c, e) == [present |-> TRUE, count |-> c, expires_at |-> e]

NoRet == [totalHits |-> 0, resetTime |-> 0, success |-> TRUE, remaining |-> 0]

\* A call's locals go out of scope when it returns.
Return(f, p, v) == [f EXCEPT ![p] = v]

Returned(op, k, r, res) == [op |-> op, key |-> k, seen |-> r, res |-> res]

Max(a, b) == IF a >= b THEN a ELSE b

\* A variant of IsFresh that forgets the expiry test.
IsFreshAbsentOnly(r, n) == ~r.present

\* increment's branch condition: `!row || row.expires_at < now`
IsFresh(r, n) == ~r.present \/ r.expires_at < n

\* The statement increment runs after its SELECT, as a function of the table:
\* INSERT OR REPLACE (key, 1, expires), or UPDATE SET count, expires_at WHERE key.
\* An UPDATE matches no row, and changes nothing, when the key is gone.
IncStore(s, k, r, n) ==
    IF IsFresh(r, n)
    THEN [s EXCEPT ![k] = Row(1, n + TtlSeconds)]
    ELSE IF s[k].present
         THEN [s EXCEPT ![k] = Row(r.count + 1, n + TtlSeconds)]
         ELSE s

\* The object increment returns.
IncResult(r, n) ==
    IF IsFresh(r, n)
    THEN [totalHits |-> 1, resetTime |-> (n + TtlSeconds) * 1000,
          success |-> TRUE, remaining |-> 99]
    ELSE [totalHits |-> r.count + 1, resetTime |-> (n + TtlSeconds) * 1000,
          success |-> (r.count + 1 <= 100),
          remaining |-> Max(0, 100 - (r.count + 1))]

\* decrement's guard: `row && row.count > 0`
DecApplies(r) == r.present /\ r.count > 0

\* A variant of DecStore that writes with INSERT OR REPLACE, as increment does.
DecStoreUpsert(s, k, r) == [s EXCEPT ![k] = Row(r.count - 1, r.expires_at)]

\* UPDATE image_rate_limit SET count = row.count - 1 WHERE key = ?
DecStore(s, k, r) ==
    IF s[k].present THEN [s EXCEPT ![k].count = r.count - 1] ELSE s

\* A variant of ResetStore that zeroes the count and keeps the row.
ResetStoreZero(s, k) == [s EXCEPT ![k].count = 0]

\* DELETE FROM image_rate_limit WHERE key = ?
ResetStore(s, k) == [s EXCEPT ![k] = NoRow]

\* A variant of SweepStore with no grace: it deletes every expired row.
SweepStoreNoGrace(s, n) ==
    [k \in Keys |-> IF s[k].present /\ s[k].expires_at < n THEN NoRow ELSE s[k]]

\* DELETE FROM image_rate_limit WHERE expires_at < now - 30 * 60
SweepStore(s, n) ==
    [k \in Keys |-> IF s[k].present /\ s[k].expires_at < n - SweepGrace
                    THEN NoRow ELSE s[k]]

(***************************************************************************)
(* History: the batch of increments running on a key.  A batch opens when  *)
(* increment is called on a key no caller is working on; it is `ok` while  *)
(* every call in it found a live row and no decrement, resetKey or sweep   *)
(* touched the key.                                                        *)
(***************************************************************************)
NoHist == [ok |-> FALSE, base |-> 0, done |-> 0, rets |-> {}]

Busy(k) == \E q \in Procs : pc[q] # "idle" /\ key[q] = k

\* The bookkeeping when increment(k) is called.
Opened(k) ==
    IF Busy(k) THEN hist
    ELSE [hist EXCEPT ![k] = [ok |-> store[k].present /\ store[k].expires_at >= now,
                              base |-> store[k].count, done |-> 0, rets |-> {}]]

Spoil(h, k) == [h EXCEPT ![k].ok = FALSE]

(***************************************************************************)
(* The bot-protection part of the middleware, in the repository's three    *)
(* versions of the worker.                                                 *)
(***************************************************************************)
BuildIndex == "index.ts"
BuildProxyA == "part_002:1-264"
BuildProxyB == "part_002:265-478"

Builds == {BuildIndex, BuildProxyA, BuildProxyB}

\* c.req.path.startsWith('/uploads/')
IsUploadRequest(path) == StartsWith(path, UploadsPrefix)

\* accept.toLowerCase().includes('image')
HasImageAccept(accept) == Includes(ToLowerCase(accept), Image)

\* A variant of IsLikelyImageRequest that looks at the path alone.
LikelyByPathOnly(path, accept) == IsUploadRequest(path)

\* isUploadRequest || hasImageAccept
IsLikelyImageRequest(path, accept) == IsUploadRequest(path) \/ HasImageAccept(accept)

\* /python|curl|bot|spider|crawler|scraper/i.test(ua)
MatchesBotPattern(ua) == \E w \in BotWords : Includes(ToLowerCase(ua), w)

\* index.ts: /health skips the middleware; 403 on an empty user-agent, a
\* blocked user-agent or an empty Accept, each unless it looks like an image
\* request; everything else goes on to the rate limiter.
AdmissionIndex(r) ==
    LET ua == OrElse(r.ua, <<>>)
        accept == OrElse(r.accept, <<>>)
        likely == IsLikelyImageRequest(r.path, accept)
        isBlockedUA == MatchesBotPattern(ua) /\ ~likely
    IN  IF r.path = PathHealth THEN "health"
        ELSE IF (ua = <<>> /\ ~likely) \/ isBlockedUA \/ (accept = <<>> /\ ~likely)
             THEN "forbidden"
             ELSE "limit"

\* part_002, first worker: the same middleware as index.ts.
AdmissionProxyA(r) == AdmissionIndex(r)

\* part_002, second worker: a user-agent starting with imgproxy/ returns
\* next() at once; the empty-Accept rule is gone.
AdmissionProxyB(r) ==
    LET ua == OrElse(r.ua, <<>>)
        accept == OrElse(r.accept, <<>>)
        likely == IsLikelyImageRequest(r.path, accept)
        isBlockedUA == MatchesBotPattern(ua) /\ ~likely
    IN  IF r.path = PathHealth THEN "health"
        ELSE IF StartsWith(ua, ImgproxyPrefix) THEN "trusted"
        ELSE IF (ua = <<>> /\ ~likely) \/ isBlockedUA
             THEN "forbidden"
             ELSE "limit"

\* A variant of Admission with no exemption for /health: the probe is
\* filtered and rate-limited like a request on /.
AdmissionNoHealthSkip(b, r) ==
    LET q == IF r.path = PathHealth THEN [r EXCEPT !.path = PathRoot] ELSE r
    IN  IF b = BuildProxyB THEN AdmissionProxyB(q) ELSE AdmissionIndex(q)

Admission(b, r) ==
    CASE b = BuildIndex -> AdmissionIndex(r)
      [] b = BuildProxyA -> AdmissionProxyA(r)
      [] b = BuildProxyB -> AdmissionProxyB(r)

\* The route that serves objects: GET /uploads/* in index.ts; GET /* in
\* part_002, registered after /health and /.
ObjectRoute(b, path) ==
    IF b = BuildIndex THEN StartsWith(path, UploadsPrefix)
    ELSE path \notin {PathHealth, PathRoot}

\* A variant of LimiterDecision that denies from the burst limit on.
LimiterDecisionBurst(totalHits) == IF totalHits > BurstLimit THEN "429" ELSE "next"

\* rateLimiter({limit: 100, store}): after store.increment(key), answer 429
\* when totalHits > limit, else call next().
LimiterDecision(totalHits) == IF totalHits > Limit THEN "429" ELSE "next"

(***************************************************************************)
(* History: per fingerprint, the requests that passed admission since the  *)
(* last one that found no live row: when that one came, how many there     *)
(* are, when the latest came.                                              *)
(***************************************************************************)
NoWin == [start |-> 0, n |-> 0, at |-> 0]

Counted(k, fresh, n) ==
    IF fresh THEN [win EXCEPT ![k] = [start |-> n, n |-> 1, at |-> n]]
    ELSE [win EXCEPT ![k].n = @ + 1, ![k].at = n]

(***************************************************************************)
(* D1RateLimitStore.increment                                              *)
(***************************************************************************)
IncCall(p, k) ==
    /\ pc[p] = "idle"
    /\ calls < MaxCalls
    /\ calls' = calls + 1
    /\ pc' = [pc EXCEPT ![p] = "inc_read"]
    /\ key' = [key EXCEPT ![p] = k]
    /\ t' = [t EXCEPT ![p] = now]
    /\ hist' = Opened(k)
    /\ UNCHANGED <<now, ticks, store, row, last>>
    /\ UNCHANGED reqVars
    /\ UNCHANGED ioVars

IncRead(p) ==
    /\ pc[p] = "inc_read"
    /\ row' = [row EXCEPT ![p] = store[key[p]]]
    /\ pc' = [pc EXCEPT ![p] = "inc_write"]
    /\ UNCHANGED <<now, ticks, calls, store, key, t, last, hist>>
    /\ UNCHANGED reqVars
    /\ UNCHANGED ioVars

IncWrite(p) ==
    /\ pc[p] = "inc_write"
    /\ store' = IncStore(store, key[p], row[p], t[p])
    /\ last' = Returned("increment", key[p], row[p], IncResult(row[p], t[p]))
    /\ pc' = Return(pc, p, "idle")
    /\ key' = Return(key, p, NoKey)
    /\ t' = Return(t, p, 0)
    /\ row' = Return(row, p, NoRow)
    /\ hist' = IF IsFresh(row[p], t[p])
               THEN Spoil(hist, key[p])
               ELSE [hist EXCEPT ![key[p]].done = @ + 1,
                                 ![key[p]].rets = @ \cup {row[p].count + 1}]
    /\ IF via[p] = "limiter"
       THEN /\ resp' = LimiterDecision(IncResult(row[p], t[p]).totalHits)
            /\ via' = Return(via, p, "direct")
            /\ win' = Counted(key[p], ~row[p].present \/ row[p].expires_at < t[p], t[p])
       ELSE UNCHANGED <<resp, via, win>>
    /\ UNCHANGED <<now, ticks, calls, build, client, req, verdict>>
    /\ UNCHANGED ioVars

(***************************************************************************)
(* D1RateLimitStore.decrement                                              *)
(***************************************************************************)
DecCall(p, k) ==
    /\ pc[p] = "idle"
    /\ calls < MaxCalls
    /\ calls' = calls + 1
    /\ pc' = [pc EXCEPT ![p] = "dec_read"]
    /\ key' = [key EXCEPT ![p] = k]
    /\ hist' = Spoil(hist, k)
    /\ UNCHANGED <<now, ticks, store, t, row, last>>
    /\ UNCHANGED reqVars
    /\ UNCHANGED ioVars

\* SELECT count ...; the method returns here when `row && row.count > 0` fails.
DecRead(p) ==
    /\ pc[p] = "dec_read"
    /\ IF DecApplies(store[key[p]])
       THEN /\ row' = [row EXCEPT ![p] = store[key[p]]]
            /\ pc' = [pc EXCEPT ![p] = "dec_write"]
            /\ UNCHANGED <<key, last>>
       ELSE /\ last' = Returned("decrement", key[p], store[key[p]], NoRet)
            /\ pc' = Return(pc, p, "idle")
            /\ key' = Return(key, p, NoKey)
            /\ UNCHANGED row
    /\ UNCHANGED <<now, ticks, calls, store, t, hist>>
    /\ UNCHANGED reqVars
    /\ UNCHANGED ioVars

DecWrite(p) ==
    /\ pc[p] = "dec_write"
    /\ store' = DecStore(store, key[p], row[p])
    /\ last' = Returned("decrement", key[p], row[p], NoRet)
    /\ pc' = Return(pc, p, "idle")
    /\ key' = Return(key, p, NoKey)
    /\ row' = Return(row, p, NoRow)
    /\ UNCHANGED <<now, ticks, calls, t, hist>>
    /\ UNCHANGED reqVars
    /\ UNCHANGED ioVars

(***************************************************************************)
(* D1RateLimitStore.resetKey                                               *)
(***************************************************************************)
ResetCall(p, k) ==
    /\ pc[p] = "idle"
    /\ calls < MaxCalls
    /\ calls' = calls + 1
    /\ pc' = [pc EXCEPT ![p] = "reset_run"]
    /\ key' = [key EXCEPT ![p] = k]
    /\ hist' = Spoil(hist, k)
    /\ UNCHANGED <<now, ticks, store, t, row, last>>
    /\ UNCHANGED reqVars
    /\ UNCHANGED ioVars

ResetRun(p) ==
    /\ pc[p] = "reset_run"
    /\ store' = ResetStore(store, key[p])
    /\ last' = Returned("resetKey", key[p], store[key[p]], NoRet)
    /\ pc' = Return(pc, p, "idle")
    /\ key' = Return(key, p, NoKey)
    /\ UNCHANGED <<now, ticks, calls, t, row, hist>>
    /\ UNCHANGED reqVars
    /\ UNCHANGED ioVars

(***************************************************************************)
(* cleanupExpiredRateLimitEntries: one bulk DELETE, run by the scheduled   *)
(* trigger, independent of the callers above.                              *)
(***************************************************************************)
\* The summary cleanupExpiredRateLimitEntries returns: result.meta.changes,
\* or 0 and the error's message when the DELETE rejects.
SweepRet(n, failed) == [deletedCount |-> n, failed |-> failed]

\* The DELETE rejects: the catch returns the summary of a failed sweep, and
\* scheduled() of part_002 completes.
CounterSweepFails ==
    /\ calls < MaxCalls
    /\ calls' = calls + 1
    /\ last' = Returned("sweep", NoKey, NoRow, SweepRet(0, TRUE))
    /\ UNCHANGED <<now, ticks, store, pc, key, t, row, hist>>
    /\ UNCHANGED reqVars
    /\ UNCHANGED ioVars

CounterSweep ==
    /\ calls < MaxCalls
    /\ calls' = calls + 1
    /\ store' = SweepStore(store, now)
    /\ last' = Returned("sweep", NoKey, NoRow,
                        SweepRet(Cardinality({k \in Keys : store'[k] # store[k]}), FALSE))
    /\ hist' = [k \in Keys |-> IF store'[k] = store[k] THEN hist[k]
                               ELSE [hist[k] EXCEPT !.ok = FALSE]]
    /\ UNCHANGED <<now, ticks, pc, key, t, row>>
    /\ UNCHANGED reqVars
    /\ UNCHANGED ioVars

(***************************************************************************)
(* The middleware app.use('*', ...) on one request: the bot protection,    *)
(* then rateLimiter(...)(c, next), whose first await is store.increment.   *)
(***************************************************************************)
NoReq == [ip |-> Missing, ua |-> Missing, accept |-> Missing, path |-> PathRoot]

Middleware(p, r) ==
    /\ pc[p] = "idle"
    /\ \A q \in Procs : via[q] = "direct"
    /\ req' = r
    /\ verdict' = Admission(build, r)
    /\ verdict' = "limit" => store[FingerprintOf(r)].count < MaxReqs
    /\ verdict' = "trusted" => win[FingerprintOf(r)].n < MaxReqs
    /\ IF verdict' = "limit"
       THEN /\ resp' = "pending"
            /\ via' = [via EXCEPT ![p] = "limiter"]
            /\ pc' = [pc EXCEPT ![p] = "inc_read"]
            /\ key' = [key EXCEPT ![p] = FingerprintOf(r)]
            /\ t' = [t EXCEPT ![p] = now]
            /\ hist' = Opened(FingerprintOf(r))
            /\ UNCHANGED win
       ELSE /\ resp' = IF verdict' = "forbidden" THEN "403" ELSE "next"
            /\ win' = IF verdict' = "trusted"
                      THEN LET k == FingerprintOf(r) IN
                           Counted(k, win[k].n = 0 \/ now > win[k].start + TtlSeconds, now)
                      ELSE win
            /\ UNCHANGED <<via, pc, key, t, hist>>
    /\ UNCHANGED <<now, ticks, store, row, last, build, client>>

\* A request of the followed client, the middleware alone.
Request(p, r) ==
    /\ Middleware(p, r)
    /\ UNCHANGED calls
    /\ UNCHANGED ioVars

\* Applying the bot protection alone to a request.
Admit(r) ==
    /\ req' = r
    /\ verdict' = Admission(build, r)
    /\ UNCHANGED <<build, client, resp, via, win>>
    /\ UNCHANGED storeVars
    /\ UNCHANGED ioVars

Tick(d) ==
    /\ ticks < MaxTicks
    /\ ticks' = ticks + 1
    /\ now' = now + d
    /\ UNCHANGED <<calls, store, pc, key, t, row, last, hist>>
    /\ UNCHANGED reqVars
    /\ UNCHANGED ioVars

(***************************************************************************)
(* A D1 statement of increment rejects: increment has no try/catch, so its *)
(* promise rejects; rateLimiter awaits it and the middleware returns that  *)
(* promise, so the rejection reaches Hono's error handler, which answers   *)
(* 500 "Internal Server Error".                                            *)
(***************************************************************************)
Rejected == [totalHits |-> 0, resetTime |-> 0, success |-> FALSE, remaining |-> 0]

\* What the client gets when store.increment rejects under the rate limiter.
OnStoreError == "500"

IncRejects(p) ==
    /\ last' = Returned("increment_rejected", key[p], row[p], Rejected)
    /\ pc' = Return(pc, p, "idle")
    /\ key' = Return(key, p, NoKey)
    /\ t' = Return(t, p, 0)
    /\ row' = Return(row, p, NoRow)
    /\ hist' = Spoil(hist, key[p])
    /\ IF via[p] = "limiter"
       THEN /\ resp' = OnStoreError
            /\ via' = Return(via, p, "direct")
       ELSE UNCHANGED <<resp, via>>
    /\ UNCHANGED <<now, ticks, calls, store, build, client, req, verdict, win>>
    /\ UNCHANGED ioVars

\* The SELECT rejects.
IncReadFails(p) ==
    /\ pc[p] = "inc_read"
    /\ IncRejects(p)

\* The INSERT OR REPLACE / UPDATE rejects: the table is left as it was.
IncWriteFails(p) ==
    /\ pc[p] = "inc_write"
    /\ IncRejects(p)

(***************************************************************************)
(* The route handlers.  Hono runs the handlers in the order they were      *)
(* registered and stops at the first that returns a response.              *)
(***************************************************************************)
Get == "GET"
Post == "POST"

UploadsKeyPrefix == <<"u", "p", "l", "o", "a", "d", "s", "/">>
PathUploadEsc ==
    <<"/", "u", "p", "l", "o", "a", "d", "s", "/", "a", "%", "2", "E", "p", "n", "g">>

NoObject == [present |-> FALSE, uploaded |-> 0]

\* An object and its upload time, in milliseconds.
Object(u) == [present |-> TRUE, uploaded |-> u]

\* c.req.path.replace(/^\/uploads\//, '')
StripUploads(path) ==
    IF StartsWith(path, UploadsPrefix)
    THEN SubSeq(path, Len(UploadsPrefix) + 1, Len(path))
    ELSE path

\* The percent-escapes decoded here.
Escapes == {<<"2", "E">>, <<"2", "F">>, <<"2", "0">>}

Unescape(e) ==
    CASE e = <<"2", "E">> -> "."
      [] e = <<"2", "F">> -> "/"
      [] e = <<"2", "0">> -> " "

\* decodeURIComponent: every %XX becomes its character; a % that starts no
\* escape throws URIError (ok = FALSE).
RECURSIVE DecodeURIComponent(_)
DecodeURIComponent(str) ==
    IF str = <<>> THEN [ok |-> TRUE, val |-> <<>>]
    ELSE IF Head(str) # "%"
         THEN LET rest == DecodeURIComponent(Tail(str))
              IN  [ok |-> rest.ok, val |-> <<Head(str)>> \o rest.val]
         ELSE IF Len(str) >= 3 /\ SubSeq(str, 2, 3) \in Escapes
              THEN LET rest == DecodeURIComponent(SubSeq(str, 4, Len(str)))
                   IN  [ok |-> rest.ok, val |-> <<Unescape(SubSeq(str, 2, 3))>> \o rest.val]
              ELSE [ok |-> FALSE, val |-> <<>>]

\* c.req.path.slice(1)
Slice1(str) == IF str = <<>> THEN <<>> ELSE Tail(str)

NoRoute ==
    [method |-> Get, pc |-> "none", key |-> <<>>, status |-> 0, body |-> "none",
     io |-> <<>>, fault |-> FALSE, uncaught |-> FALSE]

\* The handler returns a response.
Done(rt, status, body) == [rt EXCEPT !.pc = "done", !.status = status, !.body = body]

\* The handler awaits a bucket call.
Await(rt, at, k) == [rt EXCEPT !.pc = at, !.key = k]

\* An exception leaves the handler: Hono's error handler answers 500.
Thrown(rt) ==
    [rt EXCEPT !.pc = "done", !.status = 500, !.body = "hono_error", !.uncaught = TRUE]

\* index.ts: GET /health, GET /uploads/*, GET /debug/list; anything else is
\* Hono's 404.
HandlerIndex(rt, path) ==
    IF rt.method # Get THEN Done(rt, 404, "hono_not_found")
    ELSE IF path = PathHealth THEN Done(rt, 200, "health")
    ELSE IF StartsWith(path, UploadsPrefix)
         THEN LET urlPath == DecodeURIComponent(StripUploads(path))
                  k == UploadsKeyPrefix \o urlPath.val
              IN  IF ~urlPath.ok THEN Thrown(rt)
                  ELSE IF k = <<>> \/ k = UploadsKeyPrefix
                       THEN Done(rt, 400, "error")
                       ELSE Await(rt, "get", k)
    ELSE IF path = PathDebug THEN Await(rt, "debug_list", <<>>)
    ELSE Done(rt, 404, "hono_not_found")

\* part_002 (both workers): GET /health, GET /, GET /*, POST /*; GET
\* /debug/list is registered after GET /* and never reached.
HandlerProxy(rt, path) ==
    IF rt.method = Get
    THEN IF path = PathHealth THEN Done(rt, 200, "health")
         ELSE IF path = PathRoot THEN Done(rt, 200, "message")
         ELSE IF Slice1(path) = <<>> THEN Done(rt, 400, "error")
              ELSE Await(rt, "get", Slice1(path))
    ELSE IF rt.method = Post
         THEN IF Slice1(path) = <<>> THEN Done(rt, 400, "error")
              ELSE Await(rt, "put", Slice1(path))
    ELSE Done(rt, 404, "hono_not_found")

Handler(b, rt, path) ==
    IF b = BuildIndex THEN HandlerIndex(rt, path) ELSE HandlerProxy(rt, path)

\* A variant of CallsNext under which a denied request is handed on as well.
CallsNextAlways(r) == r \in {"next", "403", "429"}

\* The middleware hands the request to the route handlers only through
\* next(); a 403 or 429 response returns without calling it.
CallsNext(r) == r = "next"

Has(b, k) == k \in DOMAIN b /\ b[k].present

\* A request with its method: the middleware, then (below) the handler.
Receive(p, r, m) ==
    /\ calls < MaxCalls
    /\ calls' = calls + 1
    /\ route.pc \in {"none", "done"}
    /\ ~(CallsNext(resp) /\ route.pc = "none")
    /\ Middleware(p, r)
    /\ route' = [NoRoute EXCEPT !.method = m]
    /\ UNCHANGED <<bucket, meta, job>>

\* next(): the first matching handler runs up to its response or first await.
Dispatch ==
    /\ CallsNext(resp)
    /\ route.pc = "none"
    /\ route' = Handler(build, route, req.path)
    /\ UNCHANGED <<bucket, meta, job>>
    /\ UNCHANGED storeVars
    /\ UNCHANGED reqVars

\* await bucket.get(key) settles.  index.ts answers a fault with the error's
\* message in `details`, and lists similar files before its 404.
BucketGet(fails) ==
    /\ route.pc = "get"
    /\ LET rt == [route EXCEPT !.io = Append(@, "get"), !.fault = @ \/ fails]
       IN  route' =
             IF fails
             THEN Done(rt, 500, IF build = BuildIndex THEN "error_details" ELSE "error")
             ELSE IF Has(bucket, route.key) THEN Done(rt, 200, "object")
             ELSE IF build = BuildIndex THEN Await(rt, "list", route.key)
             ELSE Done(rt, 404, "error")
    /\ UNCHANGED <<bucket, meta, job>>
    /\ UNCHANGED storeVars
    /\ UNCHANGED reqVars

\* await bucket.list(...) settles: inside the try of GET /uploads/* (before
\* its 404), or in GET /debug/list.
BucketList(fails) ==
    /\ route.pc \in {"list", "debug_list"}
    /\ LET rt == [route EXCEPT !.io = Append(@, "list"), !.fault = @ \/ fails]
       IN  route' =
             IF route.pc = "list"
             THEN IF fails THEN Done(rt, 500, "error_details") ELSE Done(rt, 404, "error")
             ELSE IF fails THEN Done(rt, 500, "error") ELSE Done(rt, 200, "listing")
    /\ UNCHANGED <<bucket, meta, job>>
    /\ UNCHANGED storeVars
    /\ UNCHANGED reqVars

\* await bucket.put(key, body, ...) settles; POST /* has no try/catch.
BucketPut(fails) ==
    /\ route.pc = "put"
    /\ LET rt == [route EXCEPT !.io = Append(@, "put"), !.fault = @ \/ fails]
       IN  IF fails
           THEN /\ route' = Thrown(rt)
                /\ UNCHANGED bucket
           ELSE /\ route' = Done(rt, 200, "success")
                /\ bucket' = [k \in DOMAIN bucket \cup {route.key} |->
                                 IF k = route.key THEN Object(now * 1000) ELSE bucket[k]]
    /\ UNCHANGED <<meta, job>>
    /\ UNCHANGED storeVars
    /\ UNCHANGED reqVars

(***************************************************************************)
(* The scheduled trigger.  index.ts: cleanupOldFiles (the object sweep);   *)
(* part_002, first worker: cleanupExpiredRateLimitEntries (the counter     *)
(* sweep, CounterSweep above).  Times of the object sweep are in           *)
(* milliseconds, as Date.now() and uploaded.getTime() are.                 *)
(***************************************************************************)
RetentionMs == 30 * 60 * 1000

KeyA == <<"u", "p", "l", "o", "a", "d", "s", "/", "a", ".", "p", "n", "g">>
KeyB == <<"u", "p", "l", "o", "a", "d", "s", "/", "b", ".", "p", "n", "g">>

\* The objects under uploads/, in the order list() returns them.
ObjectKeys == <<KeyA, KeyB>>

CronCleanup == "*/10 * * * *"
CronOther == "0 0 * * *"

\* Rows of image_metadata (key, expires_at), expires_at in seconds or NULL.
NoMeta == [present |-> FALSE, isNull |-> TRUE, expires_at |-> 0]

MetaRow(e) == [present |-> TRUE, isNull |-> FALSE, expires_at |-> e]

MetaNull == [present |-> TRUE, isNull |-> TRUE, expires_at |-> 0]

NoJob ==
    [pc |-> "idle", started |-> 0, threshold |-> 0, todo |-> <<>>,
     keysToDelete |-> <<>>, outcome |-> "none", deleted |-> <<>>, log |-> <<>>]

\* bucket.list({ prefix: 'uploads/' }): key and upload time of each object.
ListUploads(b) ==
    LET keys == SelectSeq(ObjectKeys, LAMBDA k : Has(b, k) /\ StartsWith(k, UploadsKeyPrefix))
    IN  [i \in 1 .. Len(keys) |-> [key |-> keys[i], uploaded |-> b[keys[i]].uploaded]]

\* `if (obj.uploaded.getTime() > thirtyMinutesAgo) continue`
Skipped(obj, thirtyMinutesAgo) == obj.uploaded > thirtyMinutesAgo

\* `!row || !row.expires_at || row.expires_at * 1000 < Date.now()`
Expired(r, nowMs) ==
    ~r.present \/ r.isNull \/ r.expires_at = 0 \/ r.expires_at * 1000 < nowMs

Logged(obj, kept, nowMs) ==
    [key |-> obj.key, uploaded |-> obj.uploaded, pushed |-> kept, at |-> nowMs]

\* The loop runs on without an await over the objects it skips; it stops at
\* the next SELECT, or after the last object, where the function returns at
\* once when there is nothing to delete.
RECURSIVE Advance(_, _)
Advance(j, nowMs) ==
    IF j.todo = <<>>
    THEN IF j.keysToDelete = <<>>
         THEN [j EXCEPT !.pc = "done", !.outcome = "completed", !.deleted = <<>>]
         ELSE [j EXCEPT !.pc = "delete"]
    ELSE IF Skipped(Head(j.todo), j.threshold)
         THEN Advance([j EXCEPT !.todo = Tail(@),
                                !.log = Append(@, Logged(Head(j.todo), FALSE, nowMs))],
                      nowMs)
         ELSE [j EXCEPT !.pc = "select"]

\* An exception leaves cleanupOldFiles: index.ts's scheduled() awaits it
\* with no try/catch, so the trigger's promise rejects.
JobThrows(j) == [j EXCEPT !.pc = "done", !.outcome = "threw"]

\* scheduled(controller, env, ctx) of index.ts.
JobStart(cron) ==
    /\ build = BuildIndex
    /\ job.pc \in {"idle", "done"}
    /\ calls < MaxCalls
    /\ calls' = calls + 1
    /\ job' = IF cron = CronCleanup
              THEN [NoJob EXCEPT !.pc = "list", !.started = now * 1000,
                                 !.threshold = now * 1000 - RetentionMs]
              ELSE [NoJob EXCEPT !.pc = "done", !.outcome = "completed"]
    /\ UNCHANGED <<route, bucket, meta>>
    /\ UNCHANGED <<now, ticks, store, pc, key, t, row, last, hist>>
    /\ UNCHANGED reqVars

\* await bucket.list(...) settles.
JobList(fails) ==
    /\ job.pc = "list"
    /\ job' = IF fails THEN JobThrows(job)
              ELSE Advance([job EXCEPT !.todo = ListUploads(bucket)], now * 1000)
    /\ UNCHANGED <<route, bucket, meta>>
    /\ UNCHANGED storeVars
    /\ UNCHANGED reqVars

\* await db.prepare(SELECT expires_at ...).first() settles for the object
\* at the head of the list.
JobSelect(fails) ==
    /\ job.pc = "select"
    /\ LET obj == Head(job.todo)
           r == IF obj.key \in DOMAIN meta THEN meta[obj.key] ELSE NoMeta
           push == Expired(r, now * 1000)
       IN  job' = IF fails THEN JobThrows(job)
                  ELSE Advance([job EXCEPT
                                  !.todo = Tail(@),
                                  !.keysToDelete = IF push THEN Append(@, obj.key) ELSE @,
                                  !.log = Append(@, Logged(obj, push, now * 1000))],
                               now * 1000)
    /\ UNCHANGED <<route, bucket, meta>>
    /\ UNCHANGED storeVars
    /\ UNCHANGED reqVars

\* await bucket.delete(keysToDelete) settles.
JobDelete(fails) ==
    /\ job.pc = "delete"
    /\ IF fails
       THEN /\ job' = JobThrows(job)
            /\ UNCHANGED bucket
       ELSE /\ job' = [job EXCEPT !.pc = "done", !.outcome = "completed",
                                  !.deleted = job.keysToDelete]
            /\ bucket' = [k \in DOMAIN bucket |->
                             IF \E i \in 1 .. Len(job.keysToDelete) : job.keysToDelete[i] = k
                             THEN NoObject ELSE bucket[k]]
    /\ UNCHANGED <<route, meta>>
    /\ UNCHANGED storeVars
    /\ UNCHANGED reqVars

\* POST /* of the proxy worker bound to the same bucket, for the path "/" \o k:
\* key = c.req.path.slice(1), then await bucket.put(key, body) settles and
\* the object under k is replaced by one uploaded now.
Upload(k) ==
    /\ k \in DOMAIN bucket
    /\ calls < MaxCalls
    /\ calls' = calls + 1
    /\ bucket' = [bucket EXCEPT ![k] = Object(now * 1000)]
    /\ UNCHANGED <<route, meta, job>>
    /\ UNCHANGED <<now, ticks, store, pc, key, t, row, last, hist>>
    /\ UNCHANGED reqVars

(***************************************************************************)
(* The store under concurrent callers: an empty table, idle callers.       *)
(***************************************************************************)
InitStore ==
    /\ now = 0
    /\ ticks = 0
    /\ calls = 0
    /\ store = [k \in Keys |-> NoRow]
    /\ pc = [p \in Procs |-> "idle"]
    /\ key = [p \in Procs |-> NoKey]
    /\ t = [p \in Procs |-> 0]
    /\ row = [p \in Procs |-> NoRow]
    /\ last = Returned("none", NoKey, NoRow, NoRet)
    /\ hist = [k \in Keys |-> NoHist]

InitReq ==
    /\ req = NoReq
    /\ verdict = "none"
    /\ resp = "none"
    /\ via = [p \in Procs |-> "direct"]
    /\ win = [k \in Keys |-> NoWin]

\* No route handler at work, an empty bucket and side table, no trigger yet.
InitIo ==
    /\ route = NoRoute
    /\ bucket = [k \in {} |-> NoObject]
    /\ meta = [k \in {} |-> NoMeta]
    /\ job = NoJob

\* The store's methods are the same in every version of the worker.
Init == InitStore /\ InitReq /\ InitIo /\ build = BuildIndex /\ client = UaBrowser

Next ==
    \/ \E p \in Procs, k \in Keys : IncCall(p, k)
    \/ \E p \in Procs : IncRead(p)
    \/ \E p \in Procs : IncWrite(p)
    \/ \E p \in Procs, k \in Keys : DecCall(p, k)
    \/ \E p \in Procs : DecRead(p)
    \/ \E p \in Procs : DecWrite(p)
    \/ \E p \in Procs, k \in Keys : ResetCall(p, k)
    \/ \E p \in Procs : ResetRun(p)
    \/ CounterSweep
    \/ \E d \in TickSteps : Tick(d)

Spec == Init /\ [][Next]_vars

(***************************************************************************)
(* The bot protection on bounded requests, in each version of the worker.  *)
(***************************************************************************)
Paths == {PathHealth, PathRoot, PathObject, PathUpload, PathUploadsDir, PathDebug}

UserAgents == {Missing, Hdr(<<>>), Hdr(UaBrowser), Hdr(UaCurl), Hdr(UaBot), Hdr(UaImgproxy)}

Accepts == {Missing, Hdr(<<>>), Hdr(AcceptImage), Hdr(AcceptImageUpper),
            Hdr(AcceptHtml), Hdr(AcceptAny)}

Requests == [ip : {Missing, Hdr(Ip1)}, ua : UserAgents, accept : Accepts, path : Paths]

InitAdmit == InitStore /\ InitReq /\ InitIo /\ build \in Builds /\ client = UaBrowser

NextAdmit == \E r \in Requests : Admit(r)

SpecAdmit == InitAdmit /\ [][NextAdmit]_vars

(***************************************************************************)
(* One client (a browser, or imgproxy) sending requests one after another  *)
(* through the middleware: fetches of an object and health probes; now and *)
(* then a script on the same address asks for the debug listing.           *)
(***************************************************************************)
LimitReqs(ua) ==
    {[ip |-> Hdr(Ip1), ua |-> Hdr(ua), accept |-> Hdr(AcceptImage), path |-> PathUpload],
     [ip |-> Hdr(Ip1), ua |-> Hdr(ua), accept |-> Hdr(AcceptImage), path |-> PathHealth],
     [ip |-> Hdr(Ip1), ua |-> Hdr(UaCurl), accept |-> Missing, path |-> PathDebug]}

InitLimit ==
    /\ InitStore /\ InitReq /\ InitIo
    /\ build \in Builds /\ client \in {UaBrowser, UaImgproxy}

NextLimit ==
    \/ \E r \in LimitReqs(client) : Request("p1", r)
    \/ IncRead("p1")
    \/ IncWrite("p1")
    \/ \E d \in {1, TtlSeconds} : Tick(d)

SpecLimit == InitLimit /\ [][NextLimit]_vars

(***************************************************************************)
(* One client's requests through the middleware and the route handlers,    *)
(* one after another, on a worker whose table holds either nothing or the  *)
(* client's row after Limit requests in the current second.  Bucket calls  *)
(* and the statements of increment may fail.                               *)
(***************************************************************************)
KeyObject == <<"a", ".", "p", "n", "g">>

RouteReqs(ua) ==
    {[ip |-> Hdr(Ip1), ua |-> Hdr(ua), accept |-> Hdr(AcceptImage), path |-> pa] :
        pa \in {PathUpload, PathUploadEsc, PathObject, PathUploadsDir, PathRoot, PathHealth}}
    \cup
    {[ip |-> Hdr(Ip1), ua |-> Hdr(UaCurl), accept |-> Missing, path |-> pa] :
        pa \in {PathDebug, PathHealth}}

Methods == {Get, Post}

InitRoute ==
    /\ now = 0
    /\ ticks = 0
    /\ calls = 0
    /\ build \in Builds
    /\ client \in {UaBrowser, UaImgproxy}
    /\ store \in {[k \in Keys |-> NoRow],
                  [k \in Keys |-> IF k = Fingerprint(Ip1, client)
                                  THEN Row(Limit, TtlSeconds) ELSE NoRow]}
    /\ pc = [p \in Procs |-> "idle"]
    /\ key = [p \in Procs |-> NoKey]
    /\ t = [p \in Procs |-> 0]
    /\ row = [p \in Procs |-> NoRow]
    /\ last = Returned("none", NoKey, NoRow, NoRet)
    /\ hist = [k \in Keys |-> NoHist]
    /\ InitReq
    /\ route = NoRoute
    /\ bucket \in {[k \in {KeyA, KeyObject} |-> NoObject],
                   [k \in {KeyA, KeyObject} |-> Object(0)]}
    /\ meta = [k \in {} |-> NoMeta]
    /\ job = NoJob

NextRoute ==
    \/ \E r \in RouteReqs(client), m \in Methods : Receive("p1", r, m)
    \/ IncRead("p1")
    \/ IncWrite("p1")
    \/ IncReadFails("p1")
    \/ IncWriteFails("p1")
    \/ Dispatch
    \/ \E f \in BOOLEAN : BucketGet(f)
    \/ \E f \in BOOLEAN : BucketList(f)
    \/ \E f \in BOOLEAN : BucketPut(f)

SpecRoute == InitRoute /\ [][NextRoute]_vars

(***************************************************************************)
(* The scheduled trigger over a bucket of up to two objects and their side *)
(* table (index.ts), or over the counter table (part_002, first worker).   *)
(* The second worker of part_002 exports no scheduled handler.             *)
(***************************************************************************)
\* Upload times (ms): long ago, and 1 s and 1800 s after that.
UploadTimes == {0, 1000, 1800 * 1000}

\* Recorded expiries (s).
ExpiryTimes == {1801, 4000}

Crons == {CronCleanup, CronOther}

InitJanitor ==
    /\ InitReq
    /\ now = 0
    /\ ticks = 0
    /\ calls = 0
    /\ pc = [p \in Procs |-> "idle"]
    /\ key = [p \in Procs |-> NoKey]
    /\ t = [p \in Procs |-> 0]
    /\ row = [p \in Procs |-> NoRow]
    /\ last = Returned("none", NoKey, NoRow, NoRet)
    /\ hist = [k \in Keys |-> NoHist]
    /\ client = UaBrowser
    /\ route = NoRoute
    /\ job = NoJob
    /\ \/ /\ build = BuildIndex
          /\ store = [k \in Keys |-> NoRow]
          /\ bucket \in [{KeyA, KeyB} -> {NoObject} \cup {Object(u) : u \in UploadTimes}]
          /\ meta \in [{KeyA, KeyB} -> {NoMeta, MetaNull} \cup {MetaRow(e) : e \in ExpiryTimes}]
       \/ /\ build = BuildProxyA
          /\ store \in [Keys -> {NoRow, Row(1, TtlSeconds)}]
          /\ bucket = [k \in {} |-> NoObject]
          /\ meta = [k \in {} |-> NoMeta]

NextJanitor ==
    \/ \E cron \in Crons : JobStart(cron)
    \/ \E f \in BOOLEAN : JobList(f)
    \/ \E f \in BOOLEAN : JobSelect(f)
    \/ \E f \in BOOLEAN : JobDelete(f)
    \/ build = BuildProxyA /\ CounterSweep
    \/ build = BuildProxyA /\ CounterSweepFails
    \/ \E d \in TickSteps : Tick(d)

SpecJanitor == InitJanitor /\ [][NextJanitor]_vars

(***************************************************************************)
(* The counter sweep of part_002 running while increments are under way:   *)
(* the bulk DELETE falls before, between or after the SELECT and the write *)
(* of an increment, and the clock may advance between any two statements.  *)
(***************************************************************************)
InitSweepRace ==
    InitStore /\ InitReq /\ InitIo /\ build = BuildProxyA /\ client = UaBrowser

NextSweepRace ==
    \/ \E p \in Procs, k \in Keys : IncCall(p, k)
    \/ \E p \in Procs : IncRead(p)
    \/ \E p \in Procs : IncWrite(p)
    \/ CounterSweep
    \/ \E d \in TickSteps : Tick(d)

SpecSweepRace == InitSweepRace /\ [][NextSweepRace]_vars

(***************************************************************************)
(* The object sweep of index.ts running while the proxy worker's POST /*   *)
(* uploads to the same bucket: a put may land between any two awaits of    *)
(* cleanupOldFiles.                                                        *)
(***************************************************************************)
InitObjectRace ==
    /\ InitJanitor
    /\ build = BuildIndex
    /\ \A k \in DOMAIN bucket : bucket[k] \in {NoObject, Object(0)}
    /\ \A k \in DOMAIN meta : meta[k] \in {NoMeta} \cup {MetaRow(e) : e \in ExpiryTimes}

NextObjectRace ==
    \/ \E cron \in Crons : JobStart(cron)
    \/ \E f \in BOOLEAN : JobList(f)
    \/ \E f \in BOOLEAN : JobSelect(f)
    \/ \E f \in BOOLEAN : JobDelete(f)
    \/ \E k \in {KeyA, KeyB} : Upload(k)
    \/ \E d \in TickSteps : Tick(d)

SpecObjectRace == InitObjectRace /\ [][NextObjectRace]_vars

(***************************************************************************)
(* Properties of the store.                                                *)
(***************************************************************************)

\* p takes a step of the method it is running.
Steps(p) == pc'[p] # pc[p]

\* C1: concurrent increments on one key never lose an update.  When a batch of
\* n increment calls on a key that held a live row with count c has returned
\* (no decrement, resetKey or sweep on the key, every call found the row
\* live), the stored count is c + n and the calls returned c+1 .. c+n.
C1_NoLostUpdate ==
    \A k \in Keys :
        (hist[k].ok /\ ~Busy(k)) =>
            /\ store[k].present
            /\ store[k].count = hist[k].base + hist[k].done
            /\ hist[k].rets = (hist[k].base + 1) .. (hist[k].base + hist[k].done)

\* C2: an increment that finds a live row adds exactly one to count and leaves
\* expires_at as it was; the reset time it returns is that expires_at.
C2_WindowStaysAnchored ==
    [][\A p \in Procs :
        (/\ pc[p] = "inc_write" /\ Steps(p)
         /\ row[p].present /\ row[p].expires_at >= t[p]
         /\ store[key[p]] = row[p])
        => /\ store'[key[p]].count = row[p].count + 1
           /\ store'[key[p]].expires_at = row[p].expires_at
           /\ last'.res.resetTime = row[p].expires_at * 1000]_vars

\* C4: an increment that finds a row whose expires_at has passed acts as on an
\* absent row: it stores count 1 with expires_at = now + ttlSeconds and
\* returns totalHits 1, whatever the stale count.
C4_ExpiredIsAbsent ==
    [][\A p \in Procs :
        (/\ pc[p] = "inc_write" /\ Steps(p)
         /\ (~row[p].present \/ row[p].expires_at < t[p]))
        => /\ store'[key[p]] = Row(1, t[p] + TtlSeconds)
           /\ last'.res.totalHits = 1
           /\ last'.res.resetTime = (t[p] + TtlSeconds) * 1000]_vars

\* C4 witness: an increment returned totalHits 1 after reading an expired row
\* whose count was 2 or more, and the table holds count 1.
C4_Witness ==
    /\ last.op = "increment"
    /\ last.seen.present /\ last.seen.count >= 2
    /\ last.res.totalHits = 1
    /\ store[last.key].present /\ store[last.key].count = 1

\* C6: no step of decrement creates a row or moves expires_at; on an absent or
\* zero-count row decrement returns after its SELECT, the table unchanged; on
\* a row with count c > 0 that nobody changed meanwhile it stores c - 1.  A
\* key deleted between the SELECT and the UPDATE stays absent.
C6_DecrementFrame ==
    [][\A p \in Procs :
        (pc[p] \in {"dec_read", "dec_write"} /\ Steps(p)) =>
            LET k == key[p] IN
            /\ \A j \in Keys : ~store[j].present => ~store'[j].present
            /\ \A j \in Keys : store[j].present =>
                   /\ store'[j].present
                   /\ store'[j].expires_at = store[j].expires_at
            /\ \A j \in Keys \ {k} : store'[j] = store[j]
            /\ (pc[p] = "dec_read" /\ (~store[k].present \/ store[k].count = 0))
                   => (pc'[p] = "idle" /\ store' = store)
            /\ (pc[p] = "dec_read" /\ store[k].present /\ store[k].count > 0)
                   => (pc'[p] = "dec_write" /\ store' = store)
            /\ (pc[p] = "dec_write" /\ store[k] = row[p])
                   => store'[k].count = store[k].count - 1]_vars

\* C6 witness: a decrement that had read count > 0 returned, and the key,
\* deleted between its SELECT and its UPDATE, is absent.
C6_Witness ==
    /\ last.op = "decrement"
    /\ last.seen.present /\ last.seen.count > 0
    /\ ~store[last.key].present

\* C7: resetKey(k) leaves no row for k and every other row as it was; a second
\* resetKey(k) changes nothing more; an increment of k on the resulting table
\* stores count 1 and returns totalHits 1.
C7_ResetKey ==
    [][\A p \in Procs :
        (pc[p] = "reset_run" /\ Steps(p)) =>
            LET k == key[p] IN
            /\ ~store'[k].present
            /\ \A j \in Keys \ {k} : store'[j] = store[j]
            /\ ResetStore(store', k) = store'
            /\ IncResult(store'[k], now).totalHits = 1
            /\ IncStore(store', k, store'[k], now)[k] = Row(1, now + TtlSeconds)]_vars

\* C7 witness: resetKey removed a row with a positive count while another key
\* holds a row.
C7_Witness ==
    /\ last.op = "resetKey"
    /\ last.seen.present /\ last.seen.count >= 1
    /\ ~store[last.key].present
    /\ \E j \in Keys \ {last.key} : store[j].present

(***************************************************************************)
(* Properties of the rate-limit middleware (SpecLimit).                    *)
(***************************************************************************)

\* The window of the request answered last.
ReqWin == win[FingerprintOf(req)]

\* The request answered last passed the bot protection and has its answer.
Answered == resp \in {"next", "429"} /\ verdict \in {"limit", "trusted"}

\* C3: of the requests of one fingerprint that pass the admission filter,
\* issued one after another within ttlSeconds of the one that found no live
\* row, the first 100 are forwarded and the next is answered 429.
C3_LimitPlusOne ==
    (Answered /\ ReqWin.at <= ReqWin.start + TtlSeconds)
        => resp = (IF ReqWin.n <= Limit THEN "next" ELSE "429")

C11_ChargedBeforeRoute ==
    [][(win' # win /\ resp' = "next") =>
          LET k == FingerprintOf(req')
          IN  /\ store'[k].present
              /\ store'[k].count \in {1, store[k].count + 1}
              /\ store'[k] # store[k]]_vars

\* C20: the first request of a fingerprint made more than ttlSeconds after
\* the request that created the current record finds the window over: it is
\* counted as hit 1 and forwarded, whatever was sent in between.
C20_LetInAgain ==
    [][\A p \in Procs :
        (/\ via[p] = "limiter" /\ pc[p] = "inc_write" /\ Steps(p)
         /\ win[key[p]].n > 0
         /\ t[p] > win[key[p]].start + TtlSeconds)
        => (last'.res.totalHits = 1 /\ resp' = "next")]_vars

(***************************************************************************)
(* Properties of the counter sweep (Spec).                                 *)
(***************************************************************************)

\* C16: the counter sweep removes exactly the rows whose expires_at is more
\* than 30 minutes in the past, leaves every other row as it was, and reports
\* the number of rows it removed.
C16_CounterSweepExact ==
    [][(calls' # calls /\ pc' = pc) =>
          /\ \A k \in Keys :
                store'[k] = (IF store[k].present /\ now - store[k].expires_at > 30 * 60
                             THEN NoRow ELSE store[k])
          /\ last'.op = "sweep"
          /\ last'.res.deletedCount =
                Cardinality({k \in Keys : store[k].present /\ ~store'[k].present})]_vars

\* C16 witness: a sweep removed one row and left a row that expired less than
\* 30 minutes before.
C16_Witness ==
    /\ last.op = "sweep"
    /\ last.res.deletedCount = 1
    /\ \E k \in Keys : store[k].present /\ store[k].expires_at < now

\* C22: decrement treats an expired record as absent: a decrement(k) whose
\* SELECT finds k's record with its expires_at already past returns at once
\* with the table as it was, as it does when it finds no record; it does not
\* go on to write a new count to the stale record.
C22_DecrementSkipsExpired ==
    [][\A p \in Procs :
        (/\ pc[p] = "dec_read" /\ Steps(p)
         /\ store[key[p]].present /\ store[key[p]].expires_at < now)
        => (pc'[p] = "idle" /\ store' = store)]_vars

(***************************************************************************)
(* Properties of the counter sweep racing increments (SpecSweepRace).      *)
(***************************************************************************)

\* C21: whatever the interleaving of the sweep's bulk DELETE with an
\* increment's SELECT and write, the increment's hit is persisted: when the
\* increment returns, the table holds a row for its key whose count is the
\* totalHits it returned.
C21_HitIsPersisted ==
    [][\A p \in Procs :
        (pc[p] = "inc_write" /\ Steps(p)) =>
            /\ store'[key[p]].present
            /\ store'[key[p]].count = last'.res.totalHits]_vars

(***************************************************************************)
(* Properties of the pipeline: middleware, then route handler (SpecRoute). *)
(***************************************************************************)

\* C12: a request answered 403 leaves the counter table as it was and starts
\* no store call; a request answered 403 or 429 reaches no route handler and
\* makes no bucket call.
C12_DenialsShortCircuit ==
    [][/\ (calls' # calls /\ resp' = "403") => (store' = store /\ pc' = pc)
       /\ resp' \in {"403", "429"} =>
             (route'.pc = "none" /\ route'.io = <<>> /\ bucket' = bucket)]_vars

\* C12 witness: a request was answered 403 after another was charged and
\* answered 429, on a worker whose bucket holds objects.
C12_Witness ==
    /\ resp = "403"
    /\ last.op = "increment" /\ last.res.totalHits = Limit + 1
    /\ store[last.key].count = Limit + 1
    /\ Has(bucket, KeyA)
    /\ route.io = <<>>

\* C13: GET /health is answered 200 by the health handler whatever its
\* headers and however many requests its fingerprint has made; it starts no
\* store call and leaves the counter table as it was.
C13_HealthBypass ==
    [][(req'.path = PathHealth /\ route'.method = Get) =>
          /\ store' = store /\ pc' = pc
          /\ resp' = "next"
          /\ route'.pc = "done" =>
                (route'.status = 200 /\ route'.body = "health" /\ route'.io = <<>>)]_vars

\* C13 witness: the health probe of a client whose counter is over the limit,
\* answered 200.
C13_Witness ==
    /\ req.path = PathHealth /\ route.method = Get
    /\ req.ua = Hdr(client)
    /\ store[FingerprintOf(req)].count = Limit + 1
    /\ route.pc = "done" /\ route.status = 200

\* C14: when a statement of increment fails under the rate limiter, the
\* request is forwarded or answered 503; the failure does not leave the
\* middleware.
C14_StoreFailurePolicy ==
    (/\ last.op = "increment_rejected"
     /\ verdict = "limit" /\ last.key = FingerprintOf(req)
     /\ resp # "pending")
    => resp \in {"next", "503"}

\* C18: a GET on exactly the route prefix (the object key is empty) is
\* answered 400 with an error body and makes no bucket call.
C18_EmptyKeyIs400 ==
    (/\ route.pc = "done" /\ route.method = Get
     /\ req.path = (IF build = BuildIndex THEN UploadsPrefix ELSE PathRoot))
    => (route.status = 400 /\ route.body = "error" /\ route.io = <<>>)

\* C19: a bucket fault during a handler's get or put is answered 500 with
\* the generic error body, and is caught in the handler.
C19_FaultsAreGeneric500 ==
    (route.pc = "done" /\ route.fault)
        => (route.status = 500 /\ route.body = "error" /\ ~route.uncaught)

(***************************************************************************)
(* Properties of the scheduled trigger (SpecJanitor).                      *)
(***************************************************************************)
MetaOf(k) == IF k \in DOMAIN meta THEN meta[k] ELSE NoMeta

\* C15: a listed object is in the deletion batch exactly when it was uploaded
\* more than 30 minutes before the sweep began and it has no recorded expiry
\* or one already past when it was looked up.
C15_BatchIsEligible ==
    /\ \A i \in 1 .. Len(job.log) :
          LET e == job.log[i]
              r == MetaOf(e.key)
          IN  e.pushed <=>
                 /\ e.uploaded < job.started - 30 * 60 * 1000
                 /\ (~r.present \/ r.isNull \/ r.expires_at * 1000 < e.at)
    /\ job.outcome = "completed" =>
          \A k \in {KeyA, KeyB} :
              (\E i \in 1 .. Len(job.deleted) : job.deleted[i] = k)
                  <=> (\E i \in 1 .. Len(job.log) : job.log[i].key = k /\ job.log[i].pushed)

\* C17: the scheduled trigger never ends by throwing, and a counter sweep
\* that failed reports zero rows removed.
C17_SweepFailureContained ==
    /\ job.outcome # "threw"
    /\ (last.op = "sweep" /\ last.res.failed) => last.res.deletedCount = 0

(***************************************************************************)
(* Properties of the object sweep racing uploads (SpecObjectRace).         *)
(***************************************************************************)

\* C23: the object sweep removes no object that is not deletion-eligible at
\* the moment of deletion: every object a step removes from the bucket was,
\* as it stood just before, uploaded at least the retention time ago and has
\* no side-table expiry still to come, so an object re-uploaded since the
\* sweep's listing is not removed.
C23_DeletesOnlyEligible ==
    [][\A k \in DOMAIN bucket :
        (bucket[k].present /\ ~bucket'[k].present) =>
            /\ bucket[k].uploaded <= now * 1000 - RetentionMs
            /\ Expired(MetaOf(k), now * 1000)]_vars

(***************************************************************************)
(* Properties of the bot protection (SpecAdmit).                           *)
(***************************************************************************)
UaOf(r) == OrElse(r.ua, <<>>)

AcceptOf(r) == OrElse(r.accept, <<>>)

\* The user-agent matches the automation pattern, in any letter case.
Automation(ua) == \E w \in BotWords : Includes(ToLowerCase(ua), w)

\* The request is on the object-serving route or its Accept mentions image.
LooksLikeContentFetch(b, r) ==
    ObjectRoute(b, r.path) \/ Includes(ToLowerCase(AcceptOf(r)), Image)

\* C8: a request that looks like a content fetch is never answered 403,
\* whatever its user-agent.
C8_EscapeHatchFirst ==
    (verdict # "none" /\ LooksLikeContentFetch(build, req)) => verdict # "forbidden"

\* C9: a request is answered 403 only if it does not look like a content
\* fetch and its user-agent is empty or matches the automation pattern; a
\* non-empty user-agent that does not match is never answered 403.
C9_OnlyTwoReasons ==
    verdict # "none" =>
        /\ verdict = "forbidden" =>
               /\ ~LooksLikeContentFetch(build, req)
               /\ (UaOf(req) = <<>> \/ Automation(UaOf(req)))
        /\ (UaOf(req) # <<>> /\ ~Automation(UaOf(req))) => verdict # "forbidden"

\* C10 as stated: with an empty user-agent, a request on the object route is
\* answered 403 when its Accept is empty and is admitted when it is image/*.
C10_ObjectRouteDenied ==
    (verdict # "none" /\ UaOf(req) = <<>> /\ ObjectRoute(build, req.path)) =>
        /\ AcceptOf(req) = <<>> => verdict = "forbidden"
        /\ AcceptOf(req) = AcceptImage => verdict # "forbidden"

\* C10 amended: with an empty user-agent and an empty Accept, a request is
\* answered 403 exactly when its path is not under /uploads/ (the prefix the
\* filter tests), and admitted under /uploads/; with Accept image/* it is
\* admitted on every path.
C10_UploadsPrefixAdmitted ==
    (verdict # "none" /\ UaOf(req) = <<>> /\ req.path # PathHealth) =>
        /\ AcceptOf(req) = <<>> =>
               (verdict = "forbidden" <=> ~StartsWith(req.path, UploadsPrefix))
        /\ AcceptOf(req) = AcceptImage => verdict # "forbidden"

\* C10 witness: no user-agent, no Accept, GET /uploads/a.png: passed on to the
\* rate limiter.
C10_Witness ==
    /\ verdict = "limit"
    /\ UaOf(req) = <<>> /\ AcceptOf(req) = <<>>
    /\ req.path = PathUpload

====
